---- MODULE Spec2Model ----
(***************************************************************************)
(* Model of obsidian-codeblock-labels (src/src/main.ts).                   *)
(*                                                                         *)
(* A JavaScript string is a sequence of one-character strings.  The        *)
(* JavaScript value undefined is the sequence Undefined, which no string   *)
(* of the model equals.  A JavaScript object is a function from the keys   *)
(* it has to their values, so that a key can be missing.                   *)
(***************************************************************************)
EXTENDS Integers, Sequences, FiniteSets, TLC

VARIABLES
    data,        \* the plugin's persisted data.json, as loadData reads it
    settings,    \* CBLPlugin.settings
    loaded,      \* TRUE once loadSettings has assigned this.settings
    pending,     \* saveData calls in flight: the serialised settings of each
    input,       \* what the host hands markdownPostProcessor: the document and
                 \* the section info of the block, and the element as rendered
    el,          \* the rendered output (the HTMLElement el)
    ctxChildren, \* the render children registered with ctx.addChild
    pc,          \* "idle", "rendered" (the host has rendered a block and is about
                 \* to call the post processor), "done" (the call has returned)
    threw        \* TRUE when markdownPostProcessor ended by throwing

vars == <<data, settings, loaded, pending, input, el, ctxChildren, pc, threw>>

-----------------------------------------------------------------------------
(* Bounds of the model *)

MaxTail == 4          \* characters after the opening fence of a header
MaxPrefixLines == 1   \* document lines before the fence
MaxLineNo == 3        \* greatest lineStart / lineEnd the host reports
MaxPending == 2       \* saveData calls in flight at once

-----------------------------------------------------------------------------
(* JavaScript values and strings *)

Undefined == <<"undefined">>

NL == "\n"

\* The white space of String.prototype.trim and of the regex class \s that the
\* model's documents use.
WhiteSpace == {" ", "\t", NL}

\* The grave accent, the character of a code fence (written here by name)
BackTick == "GRAVE"

Fence == <<BackTick, BackTick, BackTick>>

\* The longest prefix of s whose characters all are (inSet) or all are not
\* (~inSet) in chars: what a greedy character class with + or * consumes.
Span(s, chars, inSet) ==
    CHOOSE n \in 0..Len(s) :
        /\ \A k \in 1..n : (s[k] \in chars) = inSet
        /\ n = Len(s) \/ (s[n + 1] \in chars) # inSet

\* String.prototype.trim
Trim(s) ==
    LET a == Span(s, WhiteSpace, TRUE)
        rest == SubSeq(s, a + 1, Len(s))
        rev == [i \in 1..Len(rest) |-> rest[Len(rest) + 1 - i]]
        b == Span(rev, WhiteSpace, TRUE)
    IN  SubSeq(rest, 1, Len(rest) - b)

\* String.prototype.split(NL)
RECURSIVE Split(_)
Split(s) ==
    LET n == Span(s, {NL}, FALSE)
    IN  IF n = Len(s) THEN <<s>>
        ELSE <<SubSeq(s, 1, n)>> \o Split(SubSeq(s, n + 2, Len(s)))

\* Array.prototype.map((s) => s.trim())
MapTrim(arr) == [i \in 1..Len(arr) |-> Trim(arr[i])]

\* Array.prototype.slice(start, end): indices are 0-based, end is exclusive, a
\* negative index counts from the end, both are clamped to the array.
Clamp(i, len) ==
    IF i < 0 THEN (IF len + i < 0 THEN 0 ELSE len + i)
    ELSE IF i > len THEN len ELSE i

Slice(arr, start, end) ==
    SubSeq(arr, Clamp(start, Len(arr)) + 1, Clamp(end, Len(arr)))

\* String.prototype.startsWith / endsWith
StartsWith(s, p) == Len(s) >= Len(p) /\ SubSeq(s, 1, Len(p)) = p

EndsWith(s, p) == Len(s) >= Len(p) /\ SubSeq(s, Len(s) - Len(p) + 1, Len(s)) = p

\* Array.prototype.includes
Includes(arr, x) == \E i \in 1..Len(arr) : arr[i] = x

\* The conversion of a value to a DOMString that an assignment to a dataset
\* key performs: undefined becomes the string "undefined".
ToDOMString(v) ==
    IF v = Undefined THEN <<"u", "n", "d", "e", "f", "i", "n", "e", "d">> ELSE v

\* A faulty variant of ObjectAssign: the earlier source wins where both have the key
ObjectAssignFirstWins(a, b) ==
    [k \in DOMAIN a \cup DOMAIN b |-> IF k \in DOMAIN a THEN a[k] ELSE b[k]]

\* Object.assign({}, a, b): the keys of both, b's value where both have the key
ObjectAssign(a, b) ==
    [k \in DOMAIN a \cup DOMAIN b |-> IF k \in DOMAIN b THEN b[k] ELSE a[k]]

-----------------------------------------------------------------------------
(* Constants of the program *)

DEFAULT_SETTINGS ==
    [ignoreLanguages |->
        <<"d", "a", "t", "a", "v", "i", "e", "w", NL,
          "d", "a", "t", "a", "v", "i", "e", "w", "j", "s", NL,
          "t", "a", "s", "k", "s">>,
     showLanguageAsLabel |-> TRUE]

\* The characters the lang group [^\s^{]+ refuses: white space, ^ and {
LangStop == WhiteSpace \cup {"^", "{"}

\* The match of the header pattern on a line; minLabel is the least number of
\* characters the label group takes (1: the + of [^}]+).
\*   /^FENCE(?<lang>[^\s^{]+)?\s*(?:{(?<label>[^}]+)})?/   (FENCE: three grave accents)
\* Every part after the backticks is optional and greedy and the pattern has no
\* end anchor, so the first attempt at each part decides it.
MatchHeader(line, minLabel) ==
    IF ~StartsWith(line, Fence)
    THEN [matched |-> FALSE, groups |-> [lang |-> Undefined, label |-> Undefined]]
    ELSE
        LET rest == SubSeq(line, Len(Fence) + 1, Len(line))
            n == Span(rest, LangStop, FALSE)
            afterLang == SubSeq(rest, n + 1, Len(rest))
            w == Span(afterLang, WhiteSpace, TRUE)
            afterWs == SubSeq(afterLang, w + 1, Len(afterLang))
            open == afterWs # <<>> /\ Head(afterWs) = "{"
            m == IF open THEN Span(Tail(afterWs), {"}"}, FALSE) ELSE 0
            closed == open /\ m >= minLabel /\ m + 2 <= Len(afterWs)
        IN  [matched |-> TRUE,
             groups |->
                [lang |-> IF n = 0 THEN Undefined ELSE SubSeq(rest, 1, n),
                 label |-> IF closed THEN SubSeq(afterWs, 2, m + 1)
                           ELSE Undefined]]

\* A faulty variant of REGEX_FENCED_CODEBLOCK_START: the label group is [^}]* and
\* captures the empty string of an empty directive
RegexWithEmptyLabel(line) == MatchHeader(line, 0)

\* line.match(REGEX_FENCED_CODEBLOCK_START)
REGEX_FENCED_CODEBLOCK_START(line) == MatchHeader(line, 1)

-----------------------------------------------------------------------------
(* The DOM *)

Node(tag, classes, text, children) ==
    [tag |-> tag, classes |-> classes, text |-> text, children |-> children]

\* el.querySelector('pre > code') # null, for the two levels the model renders
QuerySelectorPreCode(e) ==
    \E i \in 1..Len(e.children) :
        /\ e.children[i].tag = "pre"
        /\ \E j \in 1..Len(e.children[i].children) :
              e.children[i].children[j].tag = "code"

\* document.createElement('p'); label.addClass('codeblock-label');
\* label.setText(labelText)
CreateLabel(labelText) == Node("p", {"codeblock-label"}, labelText, <<>>)

-----------------------------------------------------------------------------
(* markdownPostProcessor *)

\* A faulty variant of IgnoreLanguages: the text is not split into its lines
IgnoreLanguagesUnsplit(s) ==
    IF "ignoreLanguages" \in DOMAIN s /\ s.ignoreLanguages # <<>>
    THEN <<Trim(s.ignoreLanguages)>>
    ELSE <<>>

\* const ignoreLanguages = this.settings.ignoreLanguages
\*   ? this.settings.ignoreLanguages.trim().split('\n') : [];
\* A missing key and the empty string are both falsy.
IgnoreLanguages(s) ==
    IF "ignoreLanguages" \in DOMAIN s /\ s.ignoreLanguages # <<>>
    THEN Split(Trim(s.ignoreLanguages))
    ELSE <<>>

\* A faulty variant of SectionLines: lineStart is taken to be 1-based
SectionLinesFromNext(section) ==
    Slice(MapTrim(Split(section.text)), section.lineStart + 1, section.lineEnd + 1)

\* section.text.split(NL).map((s) => s.trim())
\*   .slice(section.lineStart, section.lineEnd + 1)
SectionLines(section) ==
    Slice(MapTrim(Split(section.text)), section.lineStart, section.lineEnd + 1)

\* arr[i - 1] and arr.last(): undefined outside the array
ElementAt(arr, i) == IF i \in 1..Len(arr) THEN arr[i] ELSE Undefined

\* A faulty variant of FenceGuard: the length of lines is not checked
FenceGuardNoLength(lines) ==
    IF ElementAt(lines, 1) = Undefined THEN "throw"
    ELSE IF ~StartsWith(ElementAt(lines, 1), Fence) THEN "return"
    ELSE IF ElementAt(lines, Len(lines)) = Undefined THEN "throw"
    ELSE IF ~EndsWith(ElementAt(lines, Len(lines)), Fence) THEN "return"
    ELSE "pass"

\* A faulty variant of FenceGuard: the last line is not checked
FenceGuardNoClosing(lines) ==
    IF Len(lines) < 2 THEN "return"
    ELSE IF ElementAt(lines, 1) = Undefined THEN "throw"
    ELSE IF ~StartsWith(ElementAt(lines, 1), Fence) THEN "return"
    ELSE "pass"

\* if (lines.length < 2 || !lines[0].startsWith(FENCE) ||
\*     !lines.last().endsWith(FENCE)) return;
\* The disjuncts are evaluated left to right; a method call on undefined throws
\* a TypeError.
FenceGuard(lines) ==
    IF Len(lines) < 2 THEN "return"
    ELSE IF ElementAt(lines, 1) = Undefined THEN "throw"
    ELSE IF ~StartsWith(ElementAt(lines, 1), Fence) THEN "return"
    ELSE IF ElementAt(lines, Len(lines)) = Undefined THEN "throw"
    ELSE IF ~EndsWith(ElementAt(lines, Len(lines)), Fence) THEN "return"
    ELSE "pass"

\* A faulty variant of LabelText: the fallback does not read showLanguageAsLabel
LabelTextAlwaysFallback(s, groups) ==
    IF groups.label = Undefined THEN groups.lang ELSE groups.label

\* let labelText = match.groups['label'];
\* if (labelText == null && settings.showLanguageAsLabel) labelText = language;
LabelText(s, groups) ==
    IF /\ groups.label = Undefined
       /\ "showLanguageAsLabel" \in DOMAIN s
       /\ s.showLanguageAsLabel
    THEN groups.lang
    ELSE groups.label

\* el.dataset.language = language
SetDataset(dataset, key, value) ==
    [k \in DOMAIN dataset \cup {key} |->
        IF k = key THEN ToDOMString(value) ELSE dataset[k]]

\* el.prepend(label); el.addClass('labeled-codeblock');
\* el.dataset.language = language;
ApplyLabel(e, label, language) ==
    [e EXCEPT !.children = <<label>> \o @,
              !.classes = @ \cup {"labeled-codeblock"},
              !.dataset = SetDataset(@, "language", language)]

\* The outcome of one call markdownPostProcessor(el, ctx): the element and the
\* children of ctx afterwards, and whether the call threw.
Outcome(e, children, t) == [el |-> e, ctxChildren |-> children, threw |-> t]

PostProcess(s, e, children, section) ==
    LET ignoreLanguages == IgnoreLanguages(s) IN
    IF ~QuerySelectorPreCode(e) THEN Outcome(e, children, FALSE)
    ELSE IF section.isNull THEN Outcome(e, children, FALSE)
    ELSE
      LET lines == SectionLines(section)
          guard == FenceGuard(lines)
      IN
      IF guard = "throw" THEN Outcome(e, children, TRUE)
      ELSE IF guard = "return" THEN Outcome(e, children, FALSE)
      ELSE
        LET match == REGEX_FENCED_CODEBLOCK_START(lines[1]) IN
        IF ~match.matched THEN Outcome(e, children, FALSE)
        ELSE
          LET language == match.groups.lang
              labelText == LabelText(s, match.groups)
          IN
          IF Includes(ignoreLanguages, language) THEN Outcome(e, children, FALSE)
          ELSE IF labelText = Undefined THEN Outcome(e, children, FALSE)
          ELSE
            LET label == CreateLabel(labelText) IN
            Outcome(ApplyLabel(e, label, language), Append(children, label), FALSE)

-----------------------------------------------------------------------------
(* The host: what it renders and what ctx.getSectionInfo answers *)

\* lines joined by newlines: the document text the host keeps
RECURSIVE JoinLines(_)
JoinLines(ls) ==
    IF ls = <<>> THEN <<>>
    ELSE IF Len(ls) = 1 THEN ls[1]
    ELSE ls[1] \o <<NL>> \o JoinLines(Tail(ls))

\* ctx.getSectionInfo(el): null, or the document text and the block's line range
GetSectionInfo(inp) ==
    [isNull |-> ~inp.hasSection,
     text |-> JoinLines(inp.docLines),
     lineStart |-> inp.lineStart,
     lineEnd |-> inp.lineEnd]

Element(children) ==
    [tag |-> "div", classes |-> {}, dataset |-> [k \in {} |-> <<>>],
     children |-> children]

\* A fenced block as the host renders it: <div><pre><code>..</code></pre></div>
CodeBlockEl == Element(<<Node("pre", {}, <<>>, <<Node("code", {}, <<"a">>, <<>>)>>)>>)

\* Other renders the post processor is called with: a paragraph with inline
\* code, and a pre element without a code child
RenderedEls ==
    {CodeBlockEl,
     Element(<<Node("p", {}, <<"a">>, <<Node("code", {}, <<"a">>, <<>>)>>)>>),
     Element(<<Node("pre", {}, <<"a">>, <<>>)>>)}

TailAlphabet == {"a", " ", "{", "}", "^"}

Tails == UNION {[1..k -> TailAlphabet] : k \in 0..MaxTail}

\* Well-formed spans: an opening fence with any tail, a body line, a closing fence
HeaderInputs ==
    {[docLines |-> <<Fence \o t, <<"a">>, Fence>>, hasSection |-> TRUE,
      lineStart |-> 0, lineEnd |-> 2, rendered |-> CodeBlockEl] : t \in Tails}

Openers ==
    {Fence \o <<"a">>,
     Fence \o <<"A">>,
     <<" ">> \o Fence \o <<"a", "\t">>,
     <<BackTick, BackTick, "a">>,
     <<"a">> \o Fence}

Closers ==
    {Fence,
     <<"\t">> \o Fence \o <<" ">>,
     <<BackTick, BackTick>>,
     Fence \o <<"a">>}

Prefix(k) == [i \in 1..k |-> <<"a">>]

\* Spans of any shape: any line range over documents with or without lines
\* before the fence, fences with white space around them or malformed, section
\* info resolved or not, any rendered element
StructureInputs ==
    {[docLines |-> Prefix(k) \o <<o, <<"a">>, c>>, hasSection |-> h,
      lineStart |-> IF h THEN ls ELSE 0, lineEnd |-> IF h THEN le ELSE 0,
      rendered |-> r] :
        k \in 0..MaxPrefixLines, o \in Openers, c \in Closers, h \in BOOLEAN,
        ls \in -1..MaxLineNo, le \in -1..MaxLineNo, r \in RenderedEls}

Inputs == HeaderInputs \cup StructureInputs

\* The texts of the ignore list that the model's settings take
IgnoreValues ==
    {<<>>,
     <<"a">>,
     <<"A">>,
     <<"A", NL, "a", "a">>,
     <<" ", "a", NL>>,
     <<"a", " ", NL, "A">>,
     DEFAULT_SETTINGS.ignoreLanguages}

SettingsValues ==
    [ignoreLanguages : IgnoreValues, showLanguageAsLabel : BOOLEAN]

-----------------------------------------------------------------------------
(* Rendering: the plugin is loaded, the host renders one block and calls the *)
(* post processor on it                                                    *)

Init ==
    /\ settings \in SettingsValues
    /\ data = settings
    /\ loaded = TRUE
    /\ pending = <<>>
    /\ input \in Inputs
    /\ el = input.rendered
    /\ ctxChildren = <<>>
    /\ pc = "rendered"
    /\ threw = FALSE

\* (el, ctx) => this.markdownPostProcessor(el, ctx)
markdownPostProcessor ==
    /\ pc = "rendered"
    /\ loaded
    /\ LET r == PostProcess(settings, el, ctxChildren, GetSectionInfo(input))
       IN  /\ el' = r.el
           /\ ctxChildren' = r.ctxChildren
           /\ threw' = r.threw
    /\ pc' = "done"
    /\ UNCHANGED <<data, settings, loaded, pending, input>>

Next == markdownPostProcessor

Spec == Init /\ [][Next]_vars

-----------------------------------------------------------------------------
(* Settings: the plugin is constructed, onload loads the settings, the user *)
(* edits the two fields of the settings tab, the host completes the saves   *)

SettingsKeys == {"ignoreLanguages", "showLanguageAsLabel"}

\* The texts the settings form and data.json hold in this specification
FormTexts == {<<>>, <<"a">>, DEFAULT_SETTINGS.ignoreLanguages}

\* What data.json can hold: nothing (loadData answers null, which Object.assign
\* skips like an object without keys), or an object with some or all of the
\* keys, as an earlier version or session of the plugin saved it
PersistedData ==
    {[k \in K |-> s[k]] :
        s \in [ignoreLanguages : FormTexts, showLanguageAsLabel : BOOLEAN],
        K \in SUBSET SettingsKeys}

NoObject == [k \in {} |-> <<>>]

IdleInput == CHOOSE i \in HeaderInputs : i.docLines[1] = Fence

SettingsInit ==
    /\ data \in PersistedData
    /\ settings = NoObject
    /\ loaded = FALSE
    /\ pending = <<>>
    /\ input = IdleInput
    /\ el = input.rendered
    /\ ctxChildren = <<>>
    /\ pc = "idle"
    /\ threw = FALSE

\* this.settings = Object.assign({}, DEFAULT_SETTINGS, await this.loadData());
loadSettings ==
    /\ ~loaded
    /\ settings' = ObjectAssign(ObjectAssign(NoObject, DEFAULT_SETTINGS), data)
    /\ loaded' = TRUE
    /\ UNCHANGED <<data, pending, input, el, ctxChildren, pc, threw>>

\* await this.saveData(this.settings): the call hands the host the settings as
\* they are at the call; the host writes them later (SaveDataDone)
saveSettings(s) == pending' = Append(pending, s)

\* .onChange(async (value) => {
\*   this.plugin.settings.showLanguageAsLabel = value;
\*   await this.plugin.saveSettings(); })
ToggleOnChange(value) ==
    /\ loaded
    /\ Len(pending) < MaxPending
    /\ settings' = ObjectAssign(settings, [showLanguageAsLabel |-> value])
    /\ saveSettings(settings')
    /\ UNCHANGED <<data, loaded, input, el, ctxChildren, pc, threw>>

\* .onChange(async (val) => {
\*   this.plugin.settings.ignoreLanguages = val;
\*   this.plugin.saveSettings(); })
TextAreaOnChange(val) ==
    /\ loaded
    /\ Len(pending) < MaxPending
    /\ settings' = ObjectAssign(settings, [ignoreLanguages |-> val])
    /\ saveSettings(settings')
    /\ UNCHANGED <<data, loaded, input, el, ctxChildren, pc, threw>>

\* The host completes one of the saveData calls in flight.  The source does not
\* order the completions of overlapping calls, so any of them may complete.
SaveDataDone(i) ==
    /\ i \in 1..Len(pending)
    /\ data' = pending[i]
    /\ pending' = SubSeq(pending, 1, i - 1) \o SubSeq(pending, i + 1, Len(pending))
    /\ UNCHANGED <<settings, loaded, input, el, ctxChildren, pc, threw>>

SettingsNext ==
    \/ loadSettings
    \/ \E value \in BOOLEAN : ToggleOnChange(value)
    \/ \E val \in FormTexts : TextAreaOnChange(val)
    \/ \E i \in 1..MaxPending : SaveDataDone(i)

SettingsSpec == SettingsInit /\ [][SettingsNext]_vars

-----------------------------------------------------------------------------
(* Vocabulary of the properties, stated from the inputs and the resulting   *)
(* element, not from the steps of the post processor                        *)

Done == pc = "done"

\* The rendered output is as the host rendered it and ctx has no child
Unmodified == el = input.rendered /\ ctxChildren = <<>>

\* The trimmed lines of the document from lineStart to lineEnd inclusive
SpanLines ==
    LET lo == IF input.lineStart < 0 THEN 0 ELSE input.lineStart
        hi == IF input.lineEnd > Len(input.docLines) - 1
              THEN Len(input.docLines) - 1 ELSE input.lineEnd
    IN  [i \in 1..(hi - lo + 1) |-> Trim(input.docLines[lo + i])]

HasPreCode == QuerySelectorPreCode(input.rendered)

\* Every guard of the post processor lets the block through
PassesGuards ==
    /\ HasPreCode
    /\ input.hasSection
    /\ input.lineStart >= 0
    /\ Len(SpanLines) >= 2
    /\ StartsWith(SpanLines[1], Fence)
    /\ EndsWith(SpanLines[Len(SpanLines)], Fence)

\* What the header pattern captures from the first line of the span
Captured == REGEX_FENCED_CODEBLOCK_START(SpanLines[1]).groups

\* The entries of the ignore list
IgnoreEntries ==
    LET list == Split(Trim(settings.ignoreLanguages))
    IN  {list[i] : i \in 1..Len(list)}

LabelNode(t) ==
    [tag |-> "p", classes |-> {"codeblock-label"}, text |-> t, children |-> <<>>]

\* Exactly one label element with text t was added, as the first child; the
\* element carries the marker class; the label is registered with ctx
LabelledWith(t) ==
    /\ el.children = <<LabelNode(t)>> \o input.rendered.children
    /\ el.classes = input.rendered.classes \cup {"labeled-codeblock"}
    /\ ctxChildren = <<LabelNode(t)>>

\* The header as the specification describes it: after the fence, a run of
\* characters other than white space and {, then white space, then an optional
\* {label} directive, and nothing after it
SpecLangLen(rest) == Span(rest, WhiteSpace \cup {"{"}, FALSE)

SpecLang(line) ==
    LET rest == SubSeq(line, Len(Fence) + 1, Len(line))
    IN  IF SpecLangLen(rest) = 0 THEN Undefined
        ELSE SubSeq(rest, 1, SpecLangLen(rest))

\* What follows the language token and the white space after it
AfterLangAndSpace(line) ==
    LET rest == SubSeq(line, Len(Fence) + 1, Len(line))
        a == SubSeq(rest, SpecLangLen(rest) + 1, Len(rest))
    IN  SubSeq(a, Span(a, WhiteSpace, TRUE) + 1, Len(a))

IsLabelDirective(t) ==
    /\ Len(t) >= 3
    /\ t[1] = "{"
    /\ t[Len(t)] = "}"
    /\ \A i \in 2..(Len(t) - 1) : t[i] # "}"

ExactHeader(line) ==
    /\ StartsWith(line, Fence)
    /\ AfterLangAndSpace(line) = <<>> \/ IsLabelDirective(AfterLangAndSpace(line))

EmptyBraces(line) ==
    /\ StartsWith(line, Fence)
    /\ StartsWith(AfterLangAndSpace(line), <<"{", "}">>)

-----------------------------------------------------------------------------
(* Properties of markdownPostProcessor, checked under Spec *)

\* C1: a block whose captured language token is an entry of the ignore list is
\* left unmodified, whatever showLanguageAsLabel is and whether or not the
\* header carries a {label} directive.
C1_IgnoredNeverLabelled ==
    (Done /\ Len(SpanLines) >= 1 /\ Captured.lang \in IgnoreEntries) => Unmodified

\* An ignored language with an explicit label directive was processed
C1_Witness ==
    /\ Done
    /\ PassesGuards
    /\ Captured.lang \in IgnoreEntries
    /\ Captured.label # Undefined
    /\ Unmodified

\* C2: for a block that passes the guards and is not ignored, the label is the
\* {label} content when one is captured, else the language when
\* showLanguageAsLabel is true and a language was captured, else there is no
\* modification.
C2_LabelDecision ==
    (Done /\ PassesGuards /\ Captured.lang \notin IgnoreEntries) =>
        IF Captured.label # Undefined THEN LabelledWith(Captured.label)
        ELSE IF settings.showLanguageAsLabel /\ Captured.lang # Undefined
             THEN LabelledWith(Captured.lang)
             ELSE Unmodified

\* An explicit label, different from the language, shown although
\* showLanguageAsLabel is false
C2_Witness ==
    /\ Done
    /\ PassesGuards
    /\ ~settings.showLanguageAsLabel
    /\ Captured.lang # Undefined
    /\ Captured.label # Undefined
    /\ Captured.label # Captured.lang
    /\ LabelledWith(Captured.label)

\* C3 as stated: a span whose first trimmed line is not exactly the fence
\* followed by the header pattern and nothing else is left unmodified.
C3_ExactHeaderOrUnmodified ==
    (Done /\ Len(SpanLines) >= 1 /\ ~ExactHeader(SpanLines[1])) => Unmodified

\* C3 as amended: a span whose first trimmed line does not start with the fence
\* (the header pattern, all of whose parts after the fence are optional, is
\* matched as a prefix of the line) is left unmodified.
C3_NoFenceUnmodified ==
    (Done /\ Len(SpanLines) >= 1 /\ ~StartsWith(SpanLines[1], Fence)) => Unmodified

\* A span that passes every other guard is rejected for its first line alone
C3_Witness ==
    /\ Done
    /\ HasPreCode
    /\ input.hasSection
    /\ input.lineStart >= 0
    /\ Len(SpanLines) >= 2
    /\ ~StartsWith(SpanLines[1], Fence)
    /\ EndsWith(SpanLines[Len(SpanLines)], Fence)
    /\ Unmodified

\* C4: when a block is labelled, exactly one label element with the chosen text
\* is the first child, the element has the marker class, the label is
\* registered with ctx, and the data attribute language is the captured
\* language token, unset when the header has a label but no language.
C4_LabelledEffects ==
    (Done /\ ~Unmodified) =>
        /\ \E t \in {Captured.label, Captured.lang} : LabelledWith(t)
        /\ IF Captured.lang = Undefined
           THEN "language" \notin DOMAIN el.dataset
           ELSE /\ "language" \in DOMAIN el.dataset
                /\ el.dataset["language"] = Captured.lang

\* C5: the language token is the maximal run of characters other than white
\* space and { after the fence, and it is the value the ignore check, the
\* fallback label and the data attribute use.
C5_LanguageToken ==
    (Done /\ PassesGuards) =>
        /\ Captured.lang = SpecLang(SpanLines[1])
        /\ SpecLang(SpanLines[1]) \in IgnoreEntries => Unmodified
        /\ (~Unmodified /\ SpecLang(SpanLines[1]) # Undefined) =>
              el.dataset["language"] = SpecLang(SpanLines[1])

\* C6: a header with an empty {} directive has no explicit label: the label
\* falls back to the language when showLanguageAsLabel is true and the language
\* is captured and not ignored, otherwise nothing is modified; and no label
\* element ever has an empty text.
C6_EmptyBraces ==
    Done =>
        /\ \A i \in 1..Len(el.children) :
              "codeblock-label" \in el.children[i].classes =>
                  el.children[i].text # <<>>
        /\ (PassesGuards /\ EmptyBraces(SpanLines[1])) =>
              IF /\ settings.showLanguageAsLabel
                 /\ Captured.lang # Undefined
                 /\ Captured.lang \notin IgnoreEntries
              THEN LabelledWith(Captured.lang)
              ELSE Unmodified

\* A header with a language and an empty directive was labelled with the language
C6_Witness ==
    /\ Done
    /\ PassesGuards
    /\ EmptyBraces(SpanLines[1])
    /\ Captured.lang # Undefined
    /\ LabelledWith(Captured.lang)

\* C7: markdownPostProcessor never throws.
C7_NeverThrows == Done => ~threw

\* The post processor returned silently on a line range outside the document
C7_Witness ==
    /\ Done
    /\ HasPreCode
    /\ input.hasSection
    /\ input.lineStart > Len(input.docLines) - 1
    /\ ~threw
    /\ Unmodified

\* C9: fewer than two trimmed lines in the span, a first trimmed line that does
\* not start with the fence, a last trimmed line that does not end with it, no
\* pre > code descendant, or no section info: each leaves the rendered output
\* unmodified.  White space around the fence lines does not cause rejection:
\* the outcome is that of the same document with its lines already trimmed.
C9_Guards ==
    Done =>
        /\ ( \/ ~HasPreCode
             \/ ~input.hasSection
             \/ Len(SpanLines) < 2
             \/ ~StartsWith(SpanLines[1], Fence)
             \/ ~EndsWith(SpanLines[Len(SpanLines)], Fence) ) => Unmodified
        /\ LET trimmed == [input EXCEPT !.docLines =
                              [i \in 1..Len(input.docLines) |-> Trim(input.docLines[i])]]
           IN  el = PostProcess(settings, input.rendered, <<>>,
                                GetSectionInfo(trimmed)).el

\* A span with white space around a well-formed opening fence was rejected for
\* its last line alone
C9_Witness ==
    /\ Done
    /\ HasPreCode
    /\ input.hasSection
    /\ input.lineStart >= 0
    /\ Len(SpanLines) >= 2
    /\ input.docLines[input.lineStart + 1] # SpanLines[1]
    /\ StartsWith(SpanLines[1], Fence)
    /\ ~EndsWith(SpanLines[Len(SpanLines)], Fence)
    /\ Unmodified

-----------------------------------------------------------------------------
(* Properties of the settings, checked under SettingsSpec *)

\* C8: after loadSettings and after any edits both fields are present; at the
\* load a field missing from the persisted data takes its default and a field
\* present in it takes the persisted value.
C8_SettingsComplete ==
    /\ [](loaded => DOMAIN settings = SettingsKeys)
    /\ [][(~loaded /\ loaded') =>
            \A k \in SettingsKeys :
                settings'[k] = IF k \in DOMAIN data THEN data[k]
                               ELSE DEFAULT_SETTINGS[k]]_vars

\* Loaded from data that lacks the ignore list and holds a toggle value other
\* than the default; nothing has been edited since
C8_Witness ==
    /\ loaded
    /\ pending = <<>>
    /\ DOMAIN data = {"showLanguageAsLabel"}
    /\ data.showLanguageAsLabel = FALSE
    /\ settings.showLanguageAsLabel = FALSE
    /\ settings.ignoreLanguages = DEFAULT_SETTINGS.ignoreLanguages

====
